---- MODULE Spec2Model ----
(***************************************************************************)
(* polygon-indexer: ingestion of ERC-20 Transfer logs, classification      *)
(* against the watched addresses, persistence in SQLite and the per-token  *)
(* net-flow aggregate.                                                     *)
(*                                                                         *)
(* Text is modelled as sequences of ASCII codes, byte strings as sequences *)
(* of 0..255, unsigned integers wider than TLC's integers as their         *)
(* canonical sequence of hex digits (most significant first, <<>> = 0).    *)
(***************************************************************************)
EXTENDS Integers, Sequences, FiniteSets, Bags, TLC

VARIABLES
    pc,            \* position of indexer::run
    phase,         \* "Backfilling" | "Polling"
    retry_delay,   \* indexer.rs:14
    target_block,  \* latest - confirmations of the running cycle, kept until the next one
    todo,          \* tokens of cfg.token_set not yet visited in this cycle
    cur,           \* token being processed
    pending,       \* logs of the fetched batch not yet processed (as positions in NodeLog)
    lock,          \* owner of the Mutex<Connection>
    tx_open,       \* a rusqlite Transaction is open on the connection
    tx_base,       \* transfers table as of BEGIN (what a rollback restores)
    transfers,     \* transfers table as the shared connection sees it
    netflows,      \* netflows table
    outcome,       \* per token: what happened to it in the running cycle
    requests,      \* per token: eth_getLogs requests sent in the running cycle
    insert_failed, \* a record_transfer call of the open batch returned an error
    last_did,      \* what the loop body did with the last log it processed
    agg_status,    \* result of the update_netflows call of the token just processed
    agg_fresh,     \* the last update_netflows call returned Ok
    api_pc,        \* position of the get_transfers request
    api_token,     \* its token parameter
    api_limit,     \* its limit parameter
    api_rows,      \* the rows it read
    nf_pc,         \* position of the get_netflow request
    nf_token,      \* its token parameter
    nf_row,        \* the record it read
    shutdown,      \* main has received the ctrl_c signal
    in_log,        \* a function evaluated on its own: its input (a raw log, a request)
    in_out         \* a function evaluated on its own: what it came to

vars == <<pc, phase, retry_delay, target_block, todo, cur, pending, lock,
          tx_open, tx_base, transfers, netflows, outcome, requests,
          insert_failed, last_did, agg_status, agg_fresh, api_pc, api_token, api_limit,
          api_rows, nf_pc, nf_token, nf_row, shutdown, in_log, in_out>>

\* Option<T>: None is the empty sequence, Some(x) the sequence of x alone.
None == <<>>

Some(x) == <<x>>

Unwrap(o) == o[1]

Min(a, b) == IF a < b THEN a ELSE b

Max(a, b) == IF a > b THEN a ELSE b

(***************************************************************************)
(* Text                                                                    *)
(***************************************************************************)

\* char::to_digit(16): the value of a hex digit, -1 for any other character.
ToDigit(c) ==
    IF c \in 48..57 THEN c - 48
    ELSE IF c \in 97..102 THEN c - 87
    ELSE IF c \in 65..70 THEN c - 55
    ELSE -1

\* The lower-case hex digit of a value 0..15.
HexChar(n) == IF n < 10 THEN 48 + n ELSE 87 + n

\* The text of a sequence of hex digits.
HexText(ds) == [i \in 1..Len(ds) |-> HexChar(ds[i])]

\* "0x"
Prefix0x == <<48, 120>>

RECURSIVE TrimStart0x(_)
\* str::trim_start_matches("0x"): removes every leading repetition of "0x".
TrimStart0x(s) ==
    IF Len(s) >= 2 /\ s[1] = 48 /\ s[2] = 120
    THEN TrimStart0x(SubSeq(s, 3, Len(s)))
    ELSE s

\* hex::decode: None for an odd length or a non-hex character, else the bytes.
HexDecode(s) ==
    IF Len(s) % 2 # 0 \/ \E i \in 1..Len(s) : ToDigit(s[i]) = -1
    THEN None
    ELSE Some([i \in 1..(Len(s) \div 2) |-> 16 * ToDigit(s[2 * i - 1]) + ToDigit(s[2 * i])])

RECURSIVE StripZeros(_)
\* Canonical form of a digit sequence: no leading zero digit.
StripZeros(ds) ==
    IF ds # <<>> /\ ds[1] = 0 THEN StripZeros(Tail(ds)) ELSE ds

\* uN::from_str_radix(s, 16) for an unsigned type of `digits` hex digits:
\* an optional leading '+', then at least one hex digit; None for the empty
\* string, a lone sign, a '-', any non-hex character, or a value that does
\* not fit. The value is returned as its canonical hex digits.
FromStrRadix16(s, digits) ==
    LET body == IF s # <<>> /\ s[1] = 43 THEN Tail(s) ELSE s
    IN  IF body = <<>> \/ \E i \in 1..Len(body) : ToDigit(body[i]) = -1
        THEN None
        ELSE LET v == StripZeros([i \in 1..Len(body) |-> ToDigit(body[i])])
             IN  IF Len(v) > digits THEN None ELSE Some(v)

RECURSIVE DigitsToInt(_)
\* The integer a digit sequence stands for (used below 2^31 only).
DigitsToInt(ds) ==
    IF ds = <<>> THEN 0
    ELSE 16 * DigitsToInt(SubSeq(ds, 1, Len(ds) - 1)) + ds[Len(ds)]

RECURSIVE DigitsOf(_)
\* The canonical hex digits of a natural number.
DigitsOf(n) == IF n = 0 THEN <<>> ELSE Append(DigitsOf(n \div 16), n % 16)

RECURSIVE MulAdd(_, _, _)
\* The hex digits of ds * k + c (schoolbook, least significant digit first).
MulAdd(ds, k, c) ==
    IF ds = <<>> THEN DigitsOf(c)
    ELSE LET x == ds[Len(ds)] * k + c
         IN  Append(MulAdd(SubSeq(ds, 1, Len(ds) - 1), k, x \div 16), x % 16)

(***************************************************************************)
(* parser.rs                                                               *)
(***************************************************************************)

\* parser::topic_to_address accepting any topic of 20 bytes or more (mutant).
topic_to_address_AnyLength(topic) ==
    LET bytes == HexDecode(TrimStart0x(topic))
    IN  IF bytes = None THEN None
        ELSE IF Len(Unwrap(bytes)) < 20 THEN None
        ELSE Some(SubSeq(Unwrap(bytes), Len(Unwrap(bytes)) - 19, Len(Unwrap(bytes))))

\* parser::topic_to_address: the low 20 bytes of a 32-byte topic.
topic_to_address(topic) ==
    LET bytes == HexDecode(TrimStart0x(topic))
    IN  IF bytes = None THEN None
        ELSE IF Len(Unwrap(bytes)) # 32 THEN None
        ELSE Some(SubSeq(Unwrap(bytes), 13, 32))

\* parser::decode_transfer. Rust indexes topics from 0: topics[1], topics[2]
\* are the second and third topic.
decode_transfer(log) ==
    IF Len(log.topics) < 3 THEN None
    ELSE
    LET from == topic_to_address(log.topics[2])
        to == topic_to_address(log.topics[3])
        value == FromStrRadix16(TrimStart0x(log.data), 32)
        block == FromStrRadix16(TrimStart0x(log.block_number_hex), 16)
        index == FromStrRadix16(TrimStart0x(log.log_index_hex), 16)
    IN  IF from = None THEN None
        ELSE IF to = None THEN None
        ELSE IF block = None THEN None
        ELSE Some([from |-> Unwrap(from),
                   to |-> Unwrap(to),
                   value_u128 |-> IF value = None THEN <<>> ELSE Unwrap(value),
                   block_number |-> DigitsToInt(Unwrap(block)),
                   tx_hash |-> log.tx_hash,
                   log_index |-> IF index = None THEN 0
                                 ELSE DigitsToInt(Unwrap(index))])

(***************************************************************************)
(* rpc.rs: the Transfer event topic                                        *)
(***************************************************************************)

\* rpc::TRANSFER_TOPIC
TRANSFER_TOPIC ==
    Prefix0x \o HexText(<<
      13, 13, 15, 2, 5, 2, 10, 13, 1, 11, 14, 2, 12, 8, 9, 11, 6, 9, 12,
      2, 11, 0, 6, 8, 15, 12, 3, 7, 8, 13, 10, 10, 9, 5, 2, 11, 10, 7,
      15, 1, 6, 3, 12, 4, 10, 1, 1, 6, 2, 8, 15, 5, 5, 10, 4, 13, 15, 5,
      2, 3, 11, 3, 14, 15 >>)

(***************************************************************************)
(* config.rs: the configuration the process runs with                      *)
(***************************************************************************)

\* 20-byte addresses.
AddrA == [i \in 1..20 |-> 170]

AddrB == [i \in 1..20 |-> 187]

AddrC == [i \in 1..20 |-> 204]

AddrD == [i \in 1..20 |-> 221]

\* cfg.exchange_set: the watched addresses (parsed to bytes).
exchange_set == {AddrA, AddrB}

\* cfg.token_set, in the binary order of the address text (the order of
\* SQLite's GROUP BY token_address).
TokenSeq == <<"0xT1", "0xT2">>

token_set == {TokenSeq[i] : i \in 1..Len(TokenSeq)}

\* cfg.confirmations (the default).
confirmations == 2

(***************************************************************************)
(* Decimal amounts                                                         *)
(*                                                                         *)
(* An amount (rust_decimal::Decimal with up to 18 decimals) is held as the *)
(* hex digits of amount * 10^18, a signed aggregate as the record          *)
(* [units, wei] standing for units + wei * 10^-18.                         *)
(***************************************************************************)

\* Largest whole-token part and largest sub-token part (in 10^-18) of the
\* amounts the decimal arithmetic below is evaluated on.
MaxUnits == 2

MaxWei == 1

\* 10^18 = 0xDE0B6B3A7640000
TenPow18 == <<13, 14, 0, 11, 6, 11, 3, 10, 7, 6, 4, 0, 0, 0, 0>>

\* The hex digits of units * 10^18 + wei.
RawOf(units, wei) == StripZeros(MulAdd(TenPow18, units, wei))

\* RawOf tabulated (evaluated once).
RawTable == [p \in (0..MaxUnits) \X (0..MaxWei) |-> RawOf(p[1], p[2])]

\* units and wei of a raw amount (defined on RawOf's range).
Decompose(raw) == CHOOSE p \in DOMAIN RawTable : RawTable[p] = raw

\* Decimal::from_u128: None above the 96-bit mantissa of rust_decimal.
DecimalFromU128(v) == IF Len(v) > 24 THEN None ELSE Some(v)

\* indexer.rs: Decimal::from_u128(v).unwrap_or(ZERO) / Decimal::from(10^18).
\* The quotient has at most 18 decimals and a mantissa of at most 96 bits,
\* so the division is exact.
ScaleAmount(value_u128) ==
    LET d == DecimalFromU128(value_u128)
    IN  IF d = None THEN <<>> ELSE Unwrap(d)

\* indexer.rs: the direction of a decoded transfer, with the tests in the
\* other order (mutant).
Direction_OutFirst(transfer) ==
    IF transfer.from \in exchange_set THEN Some("OUT")
    ELSE IF transfer.to \in exchange_set THEN Some("IN")
    ELSE None

\* indexer.rs: the direction of a decoded transfer.
Direction(transfer) ==
    IF transfer.to \in exchange_set THEN Some("IN")
    ELSE IF transfer.from \in exchange_set THEN Some("OUT")
    ELSE None

(***************************************************************************)
(* db.rs: the transfers table, a bag of rows (the id and timestamp columns *)
(* are left out)                                                           *)
(***************************************************************************)

SameKey(r, tx_hash, log_index, token_address) ==
    /\ r.tx_hash = tx_hash
    /\ r.log_index = log_index
    /\ r.token_address = token_address

RECURSIVE BagOfUpdated(_, _, _, _)
\* The rows `hit` of bag `tbl`, each with amount and direction overwritten.
BagOfUpdated(tbl, hit, amount, direction) ==
    IF hit = {} THEN EmptyBag
    ELSE LET r == CHOOSE x \in hit : TRUE
             u == [r EXCEPT !.amount = amount, !.direction = direction]
         IN  [x \in {u} |-> CopiesIn(r, tbl)]
             (+) BagOfUpdated(tbl, hit \ {r}, amount, direction)

\* db::record_transfer as a plain INSERT (mutant).
record_transfer_Insert(tbl, block_number, tx_hash, log_index, token_address, from, to, amount, direction) ==
    tbl (+) SetToBag({[block_number |-> block_number, tx_hash |-> tx_hash,
                       log_index |-> log_index, token_address |-> token_address,
                       from_address |-> from, to_address |-> to,
                       amount |-> amount, direction |-> direction]})

\* db::record_transfer as INSERT OR REPLACE: the row of a known key is
\* replaced whole (mutant).
record_transfer_Replace(tbl, block_number, tx_hash, log_index, token_address, from, to, amount, direction) ==
    LET hit == {r \in BagToSet(tbl) : SameKey(r, tx_hash, log_index, token_address)}
    IN  (tbl (-) [r \in hit |-> CopiesIn(r, tbl)])
        (+) SetToBag({[block_number |-> block_number, tx_hash |-> tx_hash,
                       log_index |-> log_index, token_address |-> token_address,
                       from_address |-> from, to_address |-> to,
                       amount |-> amount, direction |-> direction]})

\* db::record_transfer: INSERT ... ON CONFLICT(tx_hash, log_index,
\* token_address) DO UPDATE SET amount, direction (, timestamp).
record_transfer(tbl, block_number, tx_hash, log_index, token_address, from, to, amount, direction) ==
    LET hit == {r \in BagToSet(tbl) : SameKey(r, tx_hash, log_index, token_address)}
    IN  IF hit = {}
        THEN tbl (+) SetToBag({[block_number |-> block_number,
                                tx_hash |-> tx_hash,
                                log_index |-> log_index,
                                token_address |-> token_address,
                                from_address |-> from, to_address |-> to,
                                amount |-> amount, direction |-> direction]})
        ELSE (tbl (-) [r \in hit |-> CopiesIn(r, tbl)])
             (+) BagOfUpdated(tbl, hit, amount, direction)

\* indexer.rs: what the loop body does with one log of a batch once
\* decode_transfer has returned t, given whether the INSERT succeeds: the
\* table afterwards and what happened.
\*   "undecodable"  decode_transfer returned None
\*   "irrelevant"   neither address is watched
\*   "failed"       record_transfer returned an error (logged, loop goes on)
\*   "stored"       record_transfer succeeded
ProcessDecoded(tbl, token, t, insert_ok) ==
    IF t = None THEN [table |-> tbl, did |-> "undecodable"]
    ELSE
    LET transfer == Unwrap(t)
        amount == ScaleAmount(transfer.value_u128)
        dir == Direction(transfer)
    IN  IF dir = None THEN [table |-> tbl, did |-> "irrelevant"]
        ELSE IF ~insert_ok THEN [table |-> tbl, did |-> "failed"]
        ELSE [table |-> record_transfer(tbl, transfer.block_number,
                                        transfer.tx_hash, transfer.log_index,
                                        token, transfer.from, transfer.to,
                                        amount, Unwrap(dir)),
              did |-> "stored"]

\* indexer.rs:38, 117: the loop body applied to a raw log.
ProcessLog(tbl, token, log, insert_ok) ==
    ProcessDecoded(tbl, token, decode_transfer(log), insert_ok)

(***************************************************************************)
(* aggregator.rs                                                           *)
(***************************************************************************)

\* CAST(amount AS REAL): the double nearest to the decimal. For an amount of
\* at least one whole token and a sub-token part of at most MaxWei * 10^-18
\* (below half the distance 2^-52 between doubles) that double is the whole
\* part; zero is exact. Doubles are held as integers: every double met here
\* is a whole number below 2^53.
CastReal(amount) == Decompose(amount)[1]

RECURSIVE SumReal(_, _, _)
\* SUM(CASE WHEN direction = dir THEN CAST(amount AS REAL) ELSE 0 END) over
\* the rows `rows` of bag `tbl` (sums of whole numbers below 2^53 are exact).
SumReal(tbl, rows, dir) ==
    IF rows = {} THEN 0
    ELSE LET r == CHOOSE x \in rows : TRUE
         IN  (IF r.direction = dir THEN CopiesIn(r, tbl) * CastReal(r.amount) ELSE 0)
             + SumReal(tbl, rows \ {r}, dir)

RECURSIVE MaxBlock_Min(_)
\* MIN(block_number) in the place of MAX (mutant).
MaxBlock_Min(rows) ==
    IF rows = {} THEN 0
    ELSE LET r == CHOOSE x \in rows : TRUE
         IN  IF rows = {r} THEN r.block_number
             ELSE Min(r.block_number, MaxBlock_Min(rows \ {r}))

RECURSIVE MaxBlock(_)
\* MAX(block_number)
MaxBlock(rows) ==
    IF rows = {} THEN 0
    ELSE LET r == CHOOSE x \in rows : TRUE
         IN  Max(r.block_number, MaxBlock(rows \ {r}))

RowsOf(tbl, token) == {r \in BagToSet(tbl) : r.token_address = token}

\* The tokens GROUP BY token_address yields, in its order.
GroupedTokens(tbl) == SelectSeq(TokenSeq, LAMBDA t : RowsOf(tbl, t) # {})

\* Decimal::from_str(&x.to_string()) of a whole-number double.
DecimalOfReal(x) == [units |-> x, wei |-> 0]

\* The net flow of one token summed exactly in decimal arithmetic: the sum
\* of its IN amounts minus the sum of its OUT amounts.
ExactNet(tbl, token) ==
    LET rows == RowsOf(tbl, token)
        Part(i) ==
            LET Sum[S \in SUBSET rows] ==
                    IF S = {} THEN 0
                    ELSE LET r == CHOOSE x \in S : TRUE
                         IN  (IF r.direction = "IN" THEN 1 ELSE -1)
                             * CopiesIn(r, tbl) * Decompose(r.amount)[i]
                             + Sum[S \ {r}]
            IN  Sum[rows]
    IN  [units |-> Part(1), wei |-> Part(2)]

\* aggregator.rs:21-34: the (token, net, last_block) row of one token.
NetflowRow(tbl, token) ==
    LET rows == RowsOf(tbl, token)
        inflow == DecimalOfReal(SumReal(tbl, rows, "IN"))
        outflow == DecimalOfReal(SumReal(tbl, rows, "OUT"))
    IN  [token_address |-> token,
         cumulative_net |-> [units |-> inflow.units - outflow.units,
                             wei |-> inflow.wei - outflow.wei],
         last_block |-> MaxBlock(rows)]

\* aggregator.rs:38-48: INSERT INTO netflows ... ON CONFLICT(token_address)
\* DO UPDATE SET cumulative_net, last_block (, updated_at).
UpsertNetflow(nf, row) ==
    {r \in nf : r.token_address # row.token_address} \cup {row}

RECURSIVE UpdateNetflowsUpTo(_, _, _)
\* aggregator::update_netflows having written the first k tokens of the
\* grouped result (each statement commits on its own).
UpdateNetflowsUpTo(tbl, nf, k) ==
    IF k = 0 THEN nf
    ELSE UpsertNetflow(UpdateNetflowsUpTo(tbl, nf, k - 1),
                       NetflowRow(tbl, GroupedTokens(tbl)[k]))

\* aggregator::update_netflows returning Ok.
update_netflows(tbl, nf) == UpdateNetflowsUpTo(tbl, nf, Len(GroupedTokens(tbl)))

(***************************************************************************)
(* The chain node behind the RPC endpoint                                  *)
(***************************************************************************)

\* The hex text of each byte of a byte string.
BytesHex(bytes) ==
    [i \in 1..(2 * Len(bytes)) |->
        HexChar(IF i % 2 = 1 THEN bytes[(i + 1) \div 2] \div 16
                ELSE bytes[i \div 2] % 16)]

\* A 32-byte topic holding a left-padded address.
PadTopic(addr) == Prefix0x \o [i \in 1..24 |-> 48] \o BytesHex(addr)

\* A JSON-RPC quantity: "0x" and the hex digits, "0x0" for zero.
Quantity(n) == Prefix0x \o (IF n = 0 THEN <<48>> ELSE HexText(DigitsOf(n)))

\* The 32-byte data word of a uint256 given by its hex digits.
DataWord(raw) == Prefix0x \o [i \in 1..(64 - Len(raw)) |-> 48] \o HexText(raw)

RawLog(address, topics, data, block, tx_hash, index) ==
    [address |-> address, topics |-> topics, data |-> data,
     block_number_hex |-> block, tx_hash |-> tx_hash, log_index_hex |-> index]

\* Heights eth_blockNumber may report.
LatestChoices == {1, 5200}

\* The Transfer logs the node may report for each token.
\*   1: 1 token C -> A (watched)                       block 5100, tx h1, log 0
\*   2: 1.000000000000000001 tokens A -> C             block 5150, tx h2, log 0
\*   3: tx h1, log 0 again after a reorganisation:
\*      2 tokens A -> C                                block 5190
\*   4: a log with two topics only
\*   5: 1 token C -> D, neither watched                block 5150, tx h3, log 0
\* and for the second token
\*   6: 1 token A -> B (both watched)                  block 5100, tx h1, log 1
\* A batch in flight holds the positions of its logs in this list.
NodeLog ==
    <<RawLog(TokenSeq[1], <<TRANSFER_TOPIC, PadTopic(AddrC), PadTopic(AddrA)>>,
             DataWord(RawOf(1, 0)), Quantity(5100), "0xh1", Quantity(0)),
      RawLog(TokenSeq[1], <<TRANSFER_TOPIC, PadTopic(AddrA), PadTopic(AddrC)>>,
             DataWord(RawOf(1, 1)), Quantity(5150), "0xh2", Quantity(0)),
      RawLog(TokenSeq[1], <<TRANSFER_TOPIC, PadTopic(AddrA), PadTopic(AddrC)>>,
             DataWord(RawOf(2, 0)), Quantity(5190), "0xh1", Quantity(0)),
      RawLog(TokenSeq[1], <<TRANSFER_TOPIC, PadTopic(AddrC)>>,
             DataWord(RawOf(1, 0)), Quantity(5150), "0xh4", Quantity(0)),
      RawLog(TokenSeq[1], <<TRANSFER_TOPIC, PadTopic(AddrC), PadTopic(AddrD)>>,
             DataWord(RawOf(1, 0)), Quantity(5150), "0xh3", Quantity(0)),
      RawLog(TokenSeq[2], <<TRANSFER_TOPIC, PadTopic(AddrA), PadTopic(AddrB)>>,
             DataWord(RawOf(1, 0)), Quantity(5100), "0xh1", Quantity(1))>>

\* The block each of the node's logs is in.
NodeLogBlock ==
    [i \in 1..Len(NodeLog) |->
        DigitsToInt(Unwrap(FromStrRadix16(TrimStart0x(NodeLog[i].block_number_hex), 16)))]

\* decode_transfer of each of the node's logs (evaluated once).
NodeLogDecoded == [i \in 1..Len(NodeLog) |-> decode_transfer(NodeLog[i])]

\* Longest eth_getLogs result.
MaxBatch == 2

\* Sequences of at most n elements of S.
SeqsUpTo(S, n) == UNION {[1..k -> S] : k \in 0..n}

\* eth_getLogs results for a token and a block range: the node's logs of
\* that contract in the range, in any order and number up to MaxBatch.
LogResults(token, from_block, to_block) ==
    SeqsUpTo({i \in 1..Len(NodeLog) :
                /\ NodeLog[i].address = token
                /\ from_block <= NodeLogBlock[i]
                /\ NodeLogBlock[i] <= to_block},
             MaxBatch)

(***************************************************************************)
(* rpc.rs                                                                  *)
(***************************************************************************)

\* What one HTTP attempt of eth_blockNumber can come to.
\*   "send_err"  the request failed or timed out
\*   "http_err"  a status other than 200
\*   "bad_body"  a body that is not {jsonrpc, id, result: <string>}
\*   "ok"        a result string
AttemptOutcomes == {"send_err", "http_err", "bad_body", "ok"}

\* rpc.rs:75: the seconds slept before another attempt.
RetrySleep == 2

RECURSIVE BlockNumberFrom_RetryAll(_, _, _)
\* rpc::get_block_number retrying after an HTTP status other than 200 too
\* (mutant).
BlockNumberFrom_RetryAll(script, result_text, attempt) ==
    IF attempt > 3 THEN [ok |-> FALSE, value |-> 0, attempts |-> 3, slept |-> RetrySleep * 3]
    ELSE IF script[attempt] = "ok"
    THEN LET n == FromStrRadix16(TrimStart0x(result_text), 16)
         IN  IF n = None THEN [ok |-> FALSE, value |-> 0, attempts |-> attempt, slept |-> RetrySleep * (attempt - 1)]
             ELSE [ok |-> TRUE, value |-> DigitsToInt(Unwrap(n)), attempts |-> attempt,
                   slept |-> RetrySleep * (attempt - 1)]
    ELSE IF script[attempt] = "bad_body"
    THEN [ok |-> FALSE, value |-> 0, attempts |-> attempt, slept |-> RetrySleep * (attempt - 1)]
    ELSE IF attempt < 3 THEN BlockNumberFrom_RetryAll(script, result_text, attempt + 1)
    ELSE [ok |-> FALSE, value |-> 0, attempts |-> attempt, slept |-> RetrySleep * (attempt - 1)]

RECURSIVE BlockNumberFrom(_, _, _)
\* rpc::get_block_number from attempt `attempt` on: script[i] is what attempt
\* i comes to, result_text the result string of a well-formed body.
BlockNumberFrom(script, result_text, attempt) ==
    IF attempt > 3 THEN [ok |-> FALSE, value |-> 0, attempts |-> 3, slept |-> RetrySleep * 3]
    ELSE IF script[attempt] = "ok"
    THEN LET n == FromStrRadix16(TrimStart0x(result_text), 16)
         IN  IF n = None THEN [ok |-> FALSE, value |-> 0, attempts |-> attempt, slept |-> RetrySleep * (attempt - 1)]
             ELSE [ok |-> TRUE, value |-> DigitsToInt(Unwrap(n)), attempts |-> attempt,
                   slept |-> RetrySleep * (attempt - 1)]
    ELSE IF script[attempt] \in {"http_err", "bad_body"}
    THEN [ok |-> FALSE, value |-> 0, attempts |-> attempt, slept |-> RetrySleep * (attempt - 1)]
    ELSE IF attempt < 3 THEN BlockNumberFrom(script, result_text, attempt + 1)
    ELSE [ok |-> FALSE, value |-> 0, attempts |-> attempt, slept |-> RetrySleep * (attempt - 1)]

\* rpc::get_block_number
get_block_number(script, result_text) == BlockNumberFrom(script, result_text, 1)

\* What a call of get_block_number can return, over what each attempt comes
\* to and the height the node reports (evaluated once).
LatestResults ==
    {get_block_number(script, Quantity(latest)) :
        script \in [1..3 -> AttemptOutcomes], latest \in LatestChoices}

\* A subtraction that does not saturate (mutant).
SaturatingSub_Plain(a, b) == a - b

\* u64::saturating_sub
SaturatingSub(a, b) == IF a >= b THEN a - b ELSE 0

(***************************************************************************)
(* api.rs                                                                  *)
(***************************************************************************)

\* SQLite's LOWER on the address texts met here.
Lower(s) ==
    IF s = "0xT1" THEN "0xt1"
    ELSE IF s = "0xT2" THEN "0xt2"
    ELSE s

\* The token and limit parameters requests are made with (10 is the default
\* limit of /transfers).
ApiTokens == {"0xt1"}

ApiLimits == {10}

\* api.rs:52: q.limit.unwrap_or(10)
LimitOrDefault(limit) == IF limit = None THEN 10 ELSE Unwrap(limit)

\* api::get_transfers with ORDER BY block_number ascending (mutant).
QueryRecentTransfers_Ascending(tbl, token, limit) ==
    LET rows == {r \in BagToSet(tbl) : Lower(r.token_address) = Lower(token)}
        n == Cardinality(rows)
        sorted == {f \in [1..n -> rows] :
                     /\ \A i, j \in 1..n : i # j => f[i] # f[j]
                     /\ \A i, j \in 1..n : i < j => f[i].block_number <= f[j].block_number}
    IN  {SubSeq(f, 1, Min(limit, n)) : f \in sorted}

\* api::get_transfers, the query: the rows whose token matches ignoring case,
\* by descending block number (ties in any order), the first `limit` of them.
QueryRecentTransfers(tbl, token, limit) ==
    LET rows == {r \in BagToSet(tbl) : Lower(r.token_address) = Lower(token)}
        n == Cardinality(rows)
        sorted == {f \in [1..n -> rows] :
                     /\ \A i, j \in 1..n : i # j => f[i] # f[j]
                     /\ \A i, j \in 1..n : i < j => f[i].block_number >= f[j].block_number}
    IN  {SubSeq(f, 1, Min(limit, n)) : f \in sorted}

\* api.rs:96-101: the record get_netflow answers with when no row matches.
DefaultNetFlow(token) ==
    [token_address |-> token,
     cumulative_net |-> [units |-> 0, wei |-> 0],
     last_block |-> 0]

\* api::get_netflow, the query: query_row yields the first row whose token
\* matches ignoring case (which one, if several match, SQLite does not
\* say), and the default record if there is none. cumulative_net is stored
\* as the decimal's text, which Decimal::from_str reads back exactly.
QueryNetFlow(nf, token) ==
    LET rows == {r \in nf : Lower(r.token_address) = Lower(token)}
    IN  IF rows = {} THEN {DefaultNetFlow(token)} ELSE rows

\* api.rs:110 entered without waiting for the Mutex (mutant).
ApiMayEnter_NoLock == TRUE

\* api.rs:110 conn.lock(): the request enters once the Mutex is free.
ApiMayEnter == lock = "free"

(***************************************************************************)
(* indexer.rs: indexer::run                                                *)
(***************************************************************************)

\* indexer.rs:11 blocks scanned at startup.
backfill == 5000

\* indexer.rs:12 blocks scanned per polling cycle.
lookback == 100

\* indexer.rs:14 the base delay between cycles, in seconds.
BaseDelay == 10

\* The delay after a failed latest-block fetch, without the cap (mutant).
NextDelay_NoCap(d) == d * 2

\* indexer.rs:86, 173: (retry_delay * 2).min(120)
NextDelay(d) == Min(d * 2, 120)

\* No cycle of this process has had a target yet.
NoTarget == -1

NoToken == "-"

NoLog == RawLog("", <<>>, <<>>, <<>>, "", <<>>)

FreshCycle == [t \in token_set |-> "none"]

NoRequests == [t \in token_set |-> 0]

\* The transfers table as committed to the database file.
Committed == IF tx_open THEN tx_base ELSE transfers

IngestVarsIdle == in_log = NoLog /\ in_out = [state |-> "idle"]

Init ==
    /\ pc = "backfill_latest"
    /\ phase = "Backfilling"
    /\ retry_delay = BaseDelay
    /\ target_block = NoTarget
    /\ todo = {}
    /\ cur = NoToken
    /\ pending = <<>>
    /\ lock = "free"
    /\ tx_open = FALSE
    /\ tx_base = EmptyBag
    /\ transfers = EmptyBag
    /\ netflows = {}
    /\ outcome = FreshCycle
    /\ requests = NoRequests
    /\ insert_failed = FALSE
    /\ last_did = "none"
    /\ agg_status = "none"
    /\ agg_fresh = TRUE
    /\ api_pc = "idle"
    /\ api_token = NoToken
    /\ api_limit = 0
    /\ api_rows = <<>>
    /\ nf_pc = "idle"
    /\ nf_token = NoToken
    /\ nf_row = None
    /\ shutdown = FALSE
    /\ IngestVarsIdle

nfVars == <<nf_pc, nf_token, nf_row>>

\* The process is alive.
Running == pc \notin {"exited", "stopped"}

apiVars == <<api_pc, api_token, api_limit, api_rows, nfVars>>

ingestVars == <<in_log, in_out>>

dbVars == <<tx_open, tx_base, transfers, netflows, insert_failed, last_did,
           agg_status, agg_fresh>>

\* indexer.rs:21-27, 96-100: get_block_number returned Ok.
LatestBlockOk ==
    /\ pc \in {"backfill_latest", "poll_latest"}
    /\ \E r \in LatestResults :
         /\ r.ok
         /\ target_block' = SaturatingSub(r.value, confirmations)
    /\ retry_delay' = BaseDelay
    /\ todo' = token_set
    /\ outcome' = FreshCycle
    /\ requests' = NoRequests
    /\ pc' = "fetch"
    /\ UNCHANGED <<phase, cur, pending, lock, dbVars, apiVars, ingestVars, shutdown>>

\* A failed latest-block fetch after which backfill is tried again (mutant).
LatestBlockErr_RetryBackfill ==
    /\ pc \in {"backfill_latest", "poll_latest"}
    /\ \E r \in LatestResults : ~r.ok
    /\ retry_delay' = NextDelay(retry_delay)
    /\ pc' = IF phase = "Backfilling" THEN "backfill_latest" ELSE "cycle_sleep"
    /\ outcome' = FreshCycle
    /\ requests' = NoRequests
    /\ UNCHANGED <<phase, target_block, todo, cur, pending, lock, dbVars, apiVars,
                   ingestVars, shutdown>>

\* indexer.rs:84-87, 171-174: get_block_number returned Err. Backfill is
\* skipped; a polling cycle ends.
LatestBlockErr ==
    /\ pc \in {"backfill_latest", "poll_latest"}
    /\ \E r \in LatestResults : ~r.ok
    /\ retry_delay' = NextDelay(retry_delay)
    /\ pc' = IF phase = "Backfilling" THEN "poll_latest" ELSE "cycle_sleep"
    /\ phase' = "Polling"
    /\ outcome' = FreshCycle
    /\ requests' = NoRequests
    /\ UNCHANGED <<target_block, todo, cur, pending, lock, dbVars, apiVars, ingestVars, shutdown>>

\* The first block of the range a cycle scans.
StartBlock ==
    IF phase = "Backfilling" THEN SaturatingSub(target_block, backfill)
    ELSE SaturatingSub(target_block, lookback)

\* indexer.rs:30-31, 105-111: get_transfer_logs returned Ok(logs) for the
\* next token of the set.
FetchLogsOk(t) ==
    /\ pc = "fetch"
    /\ t \in todo
    /\ \E logs \in LogResults(t, StartBlock, target_block) : pending' = logs
    /\ cur' = t
    /\ todo' = todo \ {t}
    /\ requests' = [requests EXCEPT ![t] = @ + 1]
    /\ pc' = "lock"
    /\ UNCHANGED <<phase, retry_delay, target_block, lock, dbVars, outcome,
                   apiVars, ingestVars, shutdown>>

\* A failed log fetch that also backs the cycle delay off (mutant).
FetchLogsErr_Backoff(t) ==
    /\ pc = "fetch"
    /\ t \in todo
    /\ cur' = t
    /\ todo' = todo \ {t}
    /\ requests' = [requests EXCEPT ![t] = @ + 1]
    /\ outcome' = [outcome EXCEPT ![t] = "fetch_failed"]
    /\ retry_delay' = NextDelay(retry_delay)
    /\ pc' = "pause"
    /\ UNCHANGED <<phase, target_block, pending, lock, dbVars,
                   apiVars, ingestVars, shutdown>>

\* indexer.rs:78, 163: get_transfer_logs returned Err: logged, nothing else.
FetchLogsErr(t) ==
    /\ pc = "fetch"
    /\ t \in todo
    /\ cur' = t
    /\ todo' = todo \ {t}
    /\ requests' = [requests EXCEPT ![t] = @ + 1]
    /\ outcome' = [outcome EXCEPT ![t] = "fetch_failed"]
    /\ pc' = "pause"
    /\ UNCHANGED <<phase, retry_delay, target_block, pending, lock, dbVars,
                   apiVars, ingestVars, shutdown>>

\* indexer.rs:33-36, 113-115: conn.lock() and db.transaction() returned Ok.
BeginBatch ==
    /\ pc = "lock"
    /\ lock = "free"
    /\ lock' = "indexer"
    /\ tx_open' = TRUE
    /\ tx_base' = transfers
    /\ insert_failed' = FALSE
    /\ last_did' = "none"
    /\ pc' = "batch"
    /\ UNCHANGED <<phase, retry_delay, target_block, todo, cur, pending,
                   transfers, netflows, agg_status, agg_fresh, outcome, requests,
                   apiVars, ingestVars, shutdown>>

\* indexer.rs:36, 115: db.transaction()? returned Err: run returns it.
BeginFails ==
    /\ pc = "lock"
    /\ lock = "free"
    /\ outcome' = [outcome EXCEPT ![cur] = "begin_failed"]
    /\ pending' = <<>>
    /\ pc' = "exited"
    /\ UNCHANGED <<phase, retry_delay, target_block, todo, cur, lock, dbVars,
                   requests, apiVars, ingestVars, shutdown>>

\* What a stored log did to the table.
StoredKind(before, after) ==
    IF after = before THEN "stored_same"
    ELSE IF BagCardinality(after) > BagCardinality(before) THEN "stored_new"
    ELSE "stored_update"

\* An iteration of `for log in logs` that leaves the loop at a log that
\* does not decode (mutant).
ProcessNextLog_BreakOnUndecodable ==
    /\ pc = "batch"
    /\ pending # <<>>
    /\ \E insert_ok \in BOOLEAN :
         LET r == ProcessDecoded(transfers, cur, NodeLogDecoded[Head(pending)], insert_ok)
         IN  /\ transfers' = r.table
             /\ last_did' = IF r.did = "stored" THEN StoredKind(transfers, r.table)
                            ELSE r.did
             /\ insert_failed' = (insert_failed \/ r.did = "failed")
             /\ pending' = IF r.did = "undecodable" THEN <<>> ELSE Tail(pending)
    /\ UNCHANGED <<pc, phase, retry_delay, target_block, todo, cur, lock,
                   tx_open, tx_base, netflows, agg_status, agg_fresh, outcome,
                   requests, apiVars, ingestVars, shutdown>>

\* indexer.rs:37-69, 116-153: one iteration of `for log in logs`.
ProcessNextLog ==
    /\ pc = "batch"
    /\ pending # <<>>
    /\ \E insert_ok \in BOOLEAN :
         LET r == ProcessDecoded(transfers, cur, NodeLogDecoded[Head(pending)], insert_ok)
         IN  /\ transfers' = r.table
             /\ last_did' = IF r.did = "stored" THEN StoredKind(transfers, r.table)
                            ELSE r.did
             /\ insert_failed' = (insert_failed \/ r.did = "failed")
    /\ pending' = Tail(pending)
    /\ UNCHANGED <<pc, phase, retry_delay, target_block, todo, cur, lock,
                   tx_open, tx_base, netflows, agg_status, agg_fresh, outcome,
                   requests, apiVars, ingestVars, shutdown>>

\* A commit after which the loop goes on to the pause without calling
\* update_netflows (mutant).
CommitOk_NoAggregate ==
    /\ pc = "batch"
    /\ pending = <<>>
    /\ tx_open' = FALSE
    /\ tx_base' = transfers
    /\ insert_failed' = FALSE
    /\ last_did' = "none"
    /\ lock' = "free"
    /\ outcome' = [outcome EXCEPT ![cur] = "committed"]
    /\ pc' = "pause"
    /\ UNCHANGED <<phase, retry_delay, target_block, todo, cur, pending,
                   transfers, netflows, agg_status, agg_fresh, requests,
                   apiVars, ingestVars, shutdown>>

\* A commit at which the guard is dropped, update_netflows running
\* without it (mutant).
CommitOk_ReleaseLock ==
    /\ pc = "batch"
    /\ pending = <<>>
    /\ tx_open' = FALSE
    /\ last_did' = "none"
    /\ lock' = "free"
    /\ pc' = "aggregate"
    /\ UNCHANGED <<phase, retry_delay, target_block, todo, cur, pending,
                   tx_base, transfers, netflows, insert_failed, agg_status,
                   agg_fresh, outcome, requests, apiVars, ingestVars, shutdown>>

\* indexer.rs:70, 154: tx.commit() returned Ok.
CommitOk ==
    /\ pc = "batch"
    /\ pending = <<>>
    /\ tx_open' = FALSE
    /\ last_did' = "none"
    /\ pc' = "aggregate"
    /\ UNCHANGED <<phase, retry_delay, target_block, todo, cur, pending, lock,
                   tx_base, transfers, netflows, insert_failed, agg_status,
                   agg_fresh, outcome, requests, apiVars, ingestVars, shutdown>>

\* indexer.rs:70, 154: tx.commit()? returned Err: the transaction is dropped
\* (rolled back), the guard released, and run returns the error.
CommitFails ==
    /\ pc = "batch"
    /\ pending = <<>>
    /\ transfers' = tx_base
    /\ tx_open' = FALSE
    /\ lock' = "free"
    /\ last_did' = "none"
    /\ insert_failed' = FALSE
    /\ outcome' = [outcome EXCEPT ![cur] = "commit_failed"]
    /\ pc' = "exited"
    /\ UNCHANGED <<phase, retry_delay, target_block, todo, cur, pending,
                   tx_base, netflows, agg_status, agg_fresh, requests, apiVars,
                   ingestVars, shutdown>>

\* indexer.rs:72-76, 156-162: update_netflows returned Ok; the guard is
\* released at the end of the match arm.
AggregateOk ==
    /\ pc = "aggregate"
    /\ netflows' = update_netflows(transfers, netflows)
    /\ agg_status' = "ok"
    /\ agg_fresh' = TRUE
    /\ tx_base' = transfers
    /\ insert_failed' = FALSE
    /\ lock' = "free"
    /\ outcome' = [outcome EXCEPT ![cur] = "committed"]
    /\ pc' = "pause"
    /\ UNCHANGED <<phase, retry_delay, target_block, todo, cur, pending,
                   tx_open, transfers, last_did, requests, apiVars, ingestVars, shutdown>>

\* update_netflows emptying the netflows table before it writes the rows
\* again, and returning Err after the first k of them (mutant).
AggregateFails_Clear ==
    /\ pc = "aggregate"
    /\ \E k \in 0..Max(0, Len(GroupedTokens(transfers)) - 1) :
         netflows' = UpdateNetflowsUpTo(transfers, {}, k)
    /\ agg_status' = "failed"
    /\ agg_fresh' = FALSE
    /\ tx_base' = transfers
    /\ insert_failed' = FALSE
    /\ lock' = "free"
    /\ outcome' = [outcome EXCEPT ![cur] = "committed"]
    /\ pc' = "pause"
    /\ UNCHANGED <<phase, retry_delay, target_block, todo, cur, pending,
                   tx_open, transfers, last_did, requests, apiVars, ingestVars, shutdown>>

\* indexer.rs:72-74, 156-158: update_netflows returned Err after writing the
\* first k tokens (k = 0: before writing any); the error is logged.
AggregateFails ==
    /\ pc = "aggregate"
    /\ \E k \in 0..Max(0, Len(GroupedTokens(transfers)) - 1) :
         netflows' = UpdateNetflowsUpTo(transfers, netflows, k)
    /\ agg_status' = "failed"
    /\ agg_fresh' = FALSE
    /\ tx_base' = transfers
    /\ insert_failed' = FALSE
    /\ lock' = "free"
    /\ outcome' = [outcome EXCEPT ![cur] = "committed"]
    /\ pc' = "pause"
    /\ UNCHANGED <<phase, retry_delay, target_block, todo, cur, pending,
                   tx_open, transfers, last_did, requests, apiVars, ingestVars, shutdown>>

\* indexer.rs:81, 166: sleep(rpc_pause), then the next token; after the last
\* token backfill goes on to the polling loop, a polling cycle to its sleep.
Pause ==
    /\ pc = "pause"
    /\ cur' = NoToken
    /\ agg_status' = "none"
    /\ IF todo # {}
       THEN pc' = "fetch" /\ UNCHANGED <<phase, outcome, requests>>
       ELSE /\ pc' = IF phase = "Backfilling" THEN "poll_latest" ELSE "cycle_sleep"
            /\ phase' = "Polling"
            /\ outcome' = FreshCycle
            /\ requests' = NoRequests
    /\ UNCHANGED <<retry_delay, target_block, todo, pending, lock, tx_open,
                   tx_base, transfers, netflows, insert_failed, last_did,
                   agg_fresh, apiVars,
                   ingestVars, shutdown>>

\* indexer.rs:177: sleep(retry_delay) between polling cycles.
CycleSleep ==
    /\ pc = "cycle_sleep"
    /\ pc' = "poll_latest"
    /\ UNCHANGED <<phase, retry_delay, target_block, todo, cur, pending, lock,
                   dbVars, outcome, requests, apiVars, ingestVars, shutdown>>

\* main.rs:14-78: the process, ended by run's error or by a shutdown, is
\* started again on the same database file.
Restart ==
    /\ pc \in {"exited", "stopped"}
    /\ pc' = "backfill_latest"
    /\ phase' = "Backfilling"
    /\ retry_delay' = BaseDelay
    /\ target_block' = NoTarget
    /\ todo' = {}
    /\ cur' = NoToken
    /\ pending' = <<>>
    /\ lock' = "free"
    /\ tx_base' = transfers
    /\ outcome' = FreshCycle
    /\ requests' = NoRequests
    /\ agg_status' = "none"
    /\ api_pc' = "idle"
    /\ api_token' = NoToken
    /\ api_limit' = 0
    /\ api_rows' = <<>>
    /\ nf_pc' = "idle"
    /\ nf_token' = NoToken
    /\ nf_row' = None
    /\ shutdown' = FALSE
    /\ UNCHANGED <<tx_open, transfers, netflows, insert_failed, last_did,
                   agg_fresh, ingestVars>>

indexerVars == <<pc, phase, retry_delay, target_block, todo, cur, pending,
                 outcome, requests>>

\* api.rs:48-54: a /transfers request arrives.
ApiRequest ==
    /\ Running
    /\ api_pc = "idle"
    /\ \E token \in ApiTokens, limit \in ApiLimits :
         api_token' = token /\ api_limit' = limit
    /\ api_pc' = "wait"
    /\ UNCHANGED <<indexerVars, lock, dbVars, api_rows, nfVars, ingestVars, shutdown>>

\* api.rs:110-134: get_transfers takes the Mutex and runs its query.
ApiQuery ==
    /\ Running
    /\ api_pc = "wait"
    /\ ApiMayEnter
    /\ lock' = "api"
    /\ api_rows' \in QueryRecentTransfers(transfers, api_token, api_limit)
    /\ api_pc' = "read"
    /\ UNCHANGED <<indexerVars, dbVars, api_token, api_limit, nfVars, ingestVars, shutdown>>

\* api.rs:135-137: the guard is dropped and the rows are returned.
ApiReturn ==
    /\ Running
    /\ api_pc = "read"
    /\ lock' = "free"
    /\ api_pc' = "idle"
    /\ api_token' = NoToken
    /\ api_limit' = 0
    /\ api_rows' = <<>>
    /\ UNCHANGED <<indexerVars, dbVars, nfVars, ingestVars, shutdown>>

\* api.rs:41-47: a /netflow request arrives.
NfRequest ==
    /\ Running
    /\ nf_pc = "idle"
    /\ \E token \in ApiTokens : nf_token' = token
    /\ nf_pc' = "wait"
    /\ UNCHANGED <<indexerVars, lock, dbVars, api_pc, api_token, api_limit,
                   api_rows, nf_row, ingestVars, shutdown>>

\* get_netflow storing the default record of a token it does not find
\* (mutant).
NfQuery_Insert ==
    /\ Running
    /\ nf_pc = "wait"
    /\ ApiMayEnter
    /\ lock' = "netflow"
    /\ \E r \in QueryNetFlow(netflows, nf_token) :
         /\ nf_row' = Some(r)
         /\ netflows' = netflows \cup {r}
    /\ nf_pc' = "read"
    /\ UNCHANGED <<indexerVars, tx_open, tx_base, transfers, insert_failed,
                   last_did, agg_status, agg_fresh, api_pc, api_token,
                   api_limit, api_rows, nf_token, ingestVars, shutdown>>

\* api.rs:71-101: get_netflow takes the Mutex and runs its query.
NfQuery ==
    /\ Running
    /\ nf_pc = "wait"
    /\ ApiMayEnter
    /\ lock' = "netflow"
    /\ \E r \in QueryNetFlow(netflows, nf_token) : nf_row' = Some(r)
    /\ nf_pc' = "read"
    /\ UNCHANGED <<indexerVars, dbVars, api_pc, api_token, api_limit, api_rows,
                   nf_token, ingestVars, shutdown>>

\* api.rs:102-104: the guard is dropped and the record is returned.
NfReturn ==
    /\ Running
    /\ nf_pc = "read"
    /\ lock' = "free"
    /\ nf_pc' = "idle"
    /\ nf_token' = NoToken
    /\ nf_row' = None
    /\ UNCHANGED <<indexerVars, dbVars, api_pc, api_token, api_limit, api_rows,
                   ingestVars, shutdown>>

\* main.rs:72-74: ctrl_c completes main's select!.
ShutdownSignal ==
    /\ Running
    /\ ~shutdown
    /\ shutdown' = TRUE
    /\ UNCHANGED <<indexerVars, lock, dbVars, apiVars, ingestVars>>

\* A task dropped wherever it is, as by an exit from the signal handler
\* (mutant).
AtAwait_Anywhere == Running

\* The .await points of indexer::run: where the task can be dropped.
AtAwait == pc \in {"backfill_latest", "poll_latest", "fetch", "pause", "cycle_sleep"}

\* main.rs:77-78: main returns and the runtime is dropped. A task is dropped
\* at an .await only: the runtime's shutdown waits for the code between two
\* .await points (from conn.lock() to the end of the match arm) and for a
\* running spawn_blocking closure to finish.
Stop ==
    /\ shutdown
    /\ AtAwait
    /\ api_pc # "read"
    /\ nf_pc # "read"
    /\ pc' = "stopped"
    /\ api_pc' = "idle"
    /\ api_token' = NoToken
    /\ api_limit' = 0
    /\ api_rows' = <<>>
    /\ nf_pc' = "idle"
    /\ nf_token' = NoToken
    /\ nf_row' = None
    /\ UNCHANGED <<phase, retry_delay, target_block, todo, cur, pending, outcome,
                   requests, lock, dbVars, ingestVars, shutdown>>

Next ==
    \/ LatestBlockOk
    \/ LatestBlockErr
    \/ \E t \in token_set : FetchLogsOk(t)
    \/ \E t \in token_set : FetchLogsErr(t)
    \/ BeginBatch
    \/ BeginFails
    \/ ProcessNextLog
    \/ CommitOk
    \/ CommitFails
    \/ AggregateOk
    \/ AggregateFails
    \/ Pause
    \/ CycleSleep
    \/ Restart
    \/ ApiRequest
    \/ ApiQuery
    \/ ApiReturn

Spec == Init /\ [][Next]_vars

\* indexer.rs:10-179: a step of the task running indexer::run.
IndexerStep ==
    \/ LatestBlockOk
    \/ LatestBlockErr
    \/ \E t \in token_set : FetchLogsOk(t)
    \/ \E t \in token_set : FetchLogsErr(t)
    \/ BeginBatch
    \/ BeginFails
    \/ ProcessNextLog
    \/ CommitOk
    \/ CommitFails
    \/ AggregateFails
    \/ AggregateOk
    \/ Pause
    \/ CycleSleep

\* The process under fair scheduling: the runtime keeps running the indexer
\* task (network calls and sleeps return), a thread blocked in conn.lock()
\* gets the Mutex if it is released again and again, and a handler that
\* holds the guard returns. Nothing starts an ended process again.
SpecFair ==
    /\ Init
    /\ [][Next]_vars
    /\ WF_vars(IndexerStep)
    /\ SF_vars(ApiQuery)
    /\ WF_vars(ApiReturn)

\* The process with both endpoints of the Read API in use.
NextApi ==
    \/ Next
    \/ NfRequest
    \/ NfQuery
    \/ NfReturn

SpecApi == Init /\ [][NextApi]_vars

\* The process with a shutdown signal arriving.
NextShutdown ==
    \/ Next
    \/ ShutdownSignal
    \/ Stop

SpecShutdown == Init /\ [][NextShutdown]_vars

(***************************************************************************)
(* Ingestion of a single log: decode_transfer, the amount, the direction   *)
(* and record_transfer applied to one raw log and an empty table, over a   *)
(* wide set of well-formed and malformed logs.                             *)
(***************************************************************************)

\* Text of n copies of character c.
Repeat(c, n) == [i \in 1..n |-> c]

\* Upper-case text of a topic (after its 0x).
UpperTopic(topic) ==
    [i \in 1..Len(topic) |->
        IF i > 2 /\ topic[i] \in 97..102 THEN topic[i] - 32 ELSE topic[i]]

\* Topic lists: too few topics, the four watched/unwatched pairs, a fourth
\* topic, topics that are not the 32 bytes of a padded address, and a topic
\* with its 0x prefix doubled.
IngestTopics ==
    {<<>>,
     <<TRANSFER_TOPIC>>,
     <<TRANSFER_TOPIC, PadTopic(AddrC)>>,
     <<TRANSFER_TOPIC, PadTopic(AddrC), PadTopic(AddrA)>>,
     <<TRANSFER_TOPIC, PadTopic(AddrA), PadTopic(AddrC)>>,
     <<TRANSFER_TOPIC, PadTopic(AddrA), PadTopic(AddrB)>>,
     <<TRANSFER_TOPIC, PadTopic(AddrC), PadTopic(AddrD)>>,
     <<TRANSFER_TOPIC, PadTopic(AddrC), PadTopic(AddrA), PadTopic(AddrB)>>,
     <<TRANSFER_TOPIC, PadTopic(AddrC), UpperTopic(PadTopic(AddrA))>>,
     <<TRANSFER_TOPIC, PadTopic(AddrC), Repeat(48, 24) \o BytesHex(AddrA)>>,
     <<TRANSFER_TOPIC, Prefix0x \o BytesHex(AddrA), PadTopic(AddrC)>>,
     <<TRANSFER_TOPIC, PadTopic(AddrC), Prefix0x \o BytesHex(AddrA)>>,
     <<TRANSFER_TOPIC, PadTopic(AddrC), Prefix0x \o Repeat(48, 26) \o BytesHex(AddrA)>>,
     <<TRANSFER_TOPIC, Prefix0x \o Repeat(48, 23) \o BytesHex(AddrA), PadTopic(AddrC)>>,
     <<TRANSFER_TOPIC, PadTopic(AddrC), Prefix0x \o Repeat(103, 24) \o BytesHex(AddrA)>>,
     <<TRANSFER_TOPIC, Prefix0x \o PadTopic(AddrA), PadTopic(AddrC)>>,
     <<TRANSFER_TOPIC, <<>>, PadTopic(AddrA)>>}

\* 2^96 - 1, 2^96, 2^128 - 1 and 2^128 as hex digits.
Pow96Less1 == Repeat(15, 24)

Pow96 == <<1>> \o Repeat(0, 24)

Pow128Less1 == Repeat(15, 32)

Pow128 == <<1>> \o Repeat(0, 32)

\* Data payloads: 32-byte words of amounts up to 128 bits, a word above 128
\* bits, the same amount without padding, and text that is no hex number.
IngestData ==
    {DataWord(<<>>),
     DataWord(RawOf(0, 1)),
     DataWord(RawOf(1, 0)),
     DataWord(RawOf(1, 1)),
     DataWord(Pow96Less1),
     DataWord(Pow96),
     DataWord(Pow128Less1),
     DataWord(Pow128),
     Prefix0x \o HexText(RawOf(1, 0)),
     Prefix0x,
     <<>>,
     Prefix0x \o <<122, 122>>}

\* Block number and log index fields.
IngestBlocks == {Quantity(5100), Quantity(0), Prefix0x, <<103>>}

IngestIndexes == {Quantity(0), Quantity(7), Prefix0x}

IngestLogs ==
    {RawLog(TokenSeq[1], tp, d, b, "0xh1", x) :
        tp \in IngestTopics, d \in IngestData, b \in IngestBlocks, x \in IngestIndexes}

\* indexer.rs:116-153 for one log, every INSERT succeeding.
IngestOne ==
    /\ in_out.state = "pending"
    /\ in_out' = [state |-> "done",
                  decoded |-> decode_transfer(in_log),
                  result |-> ProcessLog(EmptyBag, TokenSeq[1], in_log, TRUE)]
    /\ UNCHANGED <<indexerVars, lock, dbVars, apiVars, shutdown, in_log>>

InitIngest ==
    /\ pc = "ingest"
    /\ phase = "Polling"
    /\ retry_delay = BaseDelay
    /\ target_block = 0
    /\ todo = {}
    /\ cur = TokenSeq[1]
    /\ pending = <<>>
    /\ lock = "indexer"
    /\ tx_open = TRUE
    /\ tx_base = EmptyBag
    /\ transfers = EmptyBag
    /\ netflows = {}
    /\ outcome = FreshCycle
    /\ requests = NoRequests
    /\ insert_failed = FALSE
    /\ last_did = "none"
    /\ agg_status = "none"
    /\ agg_fresh = TRUE
    /\ api_pc = "idle"
    /\ api_token = NoToken
    /\ api_limit = 0
    /\ api_rows = <<>>
    /\ nf_pc = "idle"
    /\ nf_token = NoToken
    /\ nf_row = None
    /\ shutdown = FALSE
    /\ in_log \in IngestLogs
    /\ in_out = [state |-> "pending"]

NextIngest == IngestOne

SpecIngest == InitIngest /\ [][NextIngest]_vars

(***************************************************************************)
(* The Read API's queries evaluated on their own, over the tables of a     *)
(* process configured with the token addresses 0xT1, 0xt1 (the same        *)
(* contract written in the other case) and 0xT2.                           *)
(***************************************************************************)

TransferRow(block_number, tx_hash, log_index, token_address, from, to, amount, direction) ==
    [block_number |-> block_number, tx_hash |-> tx_hash, log_index |-> log_index,
     token_address |-> token_address, from_address |-> from, to_address |-> to,
     amount |-> amount, direction |-> direction]

\* Rows of the transfers table (their keys differ).
QueryRows ==
    {TransferRow(5100, "0xh1", 0, "0xT1", AddrC, AddrA, RawOf(1, 0), "IN"),
     TransferRow(5150, "0xh2", 0, "0xT1", AddrA, AddrC, RawOf(1, 1), "OUT"),
     TransferRow(5150, "0xh3", 0, "0xT1", AddrC, AddrB, RawOf(2, 0), "IN"),
     TransferRow(5190, "0xh1", 0, "0xt1", AddrC, AddrA, RawOf(1, 0), "IN"),
     TransferRow(5100, "0xh1", 1, "0xT2", AddrA, AddrB, RawOf(1, 0), "IN")}

\* Rows of the netflows table.
QueryAggregates ==
    {[token_address |-> "0xT1", cumulative_net |-> [units |-> 2, wei |-> 0],
      last_block |-> 5150],
     [token_address |-> "0xt1", cumulative_net |-> [units |-> 1, wei |-> 0],
      last_block |-> 5190],
     [token_address |-> "0xT2", cumulative_net |-> [units |-> 1, wei |-> 0],
      last_block |-> 5100]}

\* Token parameters of a request: stored addresses and one never seen.
QueryTokens == {"0xT1", "0xt1", "0xT2", "0xnone"}

\* Limit parameters of a /transfers request: absent, or a number.
QueryLimits == {None, Some(0), Some(1), Some(2)}

QueryRequests ==
    [kind : {"transfers"}, token : QueryTokens, limit : QueryLimits]
    \cup [kind : {"netflow"}, token : QueryTokens, limit : {None}]

\* api.rs:41-54, 68-138: one request answered.
AnswerQuery ==
    /\ in_out.state = "pending"
    /\ IF in_log.kind = "transfers"
       THEN \E rows \in QueryRecentTransfers(transfers, in_log.token,
                                             LimitOrDefault(in_log.limit)) :
                in_out' = [state |-> "done", rows |-> rows]
       ELSE \E r \in QueryNetFlow(netflows, in_log.token) :
                in_out' = [state |-> "done", record |-> r]
    /\ UNCHANGED <<indexerVars, lock, dbVars, apiVars, shutdown, in_log>>

\* Every variable of the running process at rest, the indexer at `at`.
AtRest(at) ==
    /\ pc = at
    /\ phase = "Polling"
    /\ retry_delay = BaseDelay
    /\ target_block = NoTarget
    /\ todo = {}
    /\ cur = NoToken
    /\ pending = <<>>
    /\ lock = "free"
    /\ tx_open = FALSE
    /\ outcome = FreshCycle
    /\ requests = NoRequests
    /\ insert_failed = FALSE
    /\ last_did = "none"
    /\ agg_status = "none"
    /\ agg_fresh = TRUE
    /\ api_pc = "idle"
    /\ api_token = NoToken
    /\ api_limit = 0
    /\ api_rows = <<>>
    /\ nf_pc = "idle"
    /\ nf_token = NoToken
    /\ nf_row = None
    /\ shutdown = FALSE

InitQuery ==
    /\ AtRest("query")
    /\ \E S \in SUBSET QueryRows : transfers = SetToBag(S)
    /\ tx_base = transfers
    /\ netflows \in SUBSET QueryAggregates
    /\ in_log \in QueryRequests
    /\ in_out = [state |-> "pending"]

NextQuery == AnswerQuery

SpecQuery == InitQuery /\ [][NextQuery]_vars

(***************************************************************************)
(* get_block_number evaluated on its own                                   *)
(***************************************************************************)

\* Result strings of a well-formed eth_blockNumber body: quantities, and
\* strings that are no hex number.
ResultTexts ==
    {Quantity(5200), Quantity(1), HexText(DigitsOf(5200)), Prefix0x, <<122>>}

\* rpc.rs:40-82: one call of get_block_number.
CallBlockNumber ==
    /\ in_out.state = "pending"
    /\ in_out' = [state |-> "done",
                  result |-> get_block_number(in_log.script, in_log.text)]
    /\ UNCHANGED <<indexerVars, lock, dbVars, apiVars, shutdown, in_log>>

InitRpc ==
    /\ AtRest("rpc")
    /\ transfers = EmptyBag
    /\ tx_base = EmptyBag
    /\ netflows = {}
    /\ in_log \in [script : [1..3 -> AttemptOutcomes], text : ResultTexts]
    /\ in_out = [state |-> "pending"]

NextRpc == CallBlockNumber

SpecRpc == InitRpc /\ [][NextRpc]_vars

(***************************************************************************)
(* The block range of a cycle, as a function of the latest block, the      *)
(* confirmation depth and the phase                                        *)
(***************************************************************************)

\* indexer.rs:24-25, 30, 99, 108-109: the range asked of get_transfer_logs.
ScanRange(latest, depth, in_phase) ==
    LET target == SaturatingSub(latest, depth)
    IN  [from_block |-> SaturatingSub(target, IF in_phase = "Backfilling" THEN backfill
                                              ELSE lookback),
         to_block |-> target]

\* Heights eth_blockNumber reports: about zero, the polling window, the
\* backfill window, and beyond.
RangeLatest ==
    {0, 1, 2, 3, 50, 99, 100, 101, 102, 103, 300, 4999, 5000, 5001, 5002,
     5003, 5100, 5200, 10000}

\* Values of CONFIRMATIONS.
RangeConfirmations == {0, 1, 2, 3, 12, 200, 6000}

\* indexer.rs:21-30, 96-110: the range of one cycle is computed.
ComputeRange ==
    /\ in_out.state = "pending"
    /\ in_out' = [state |-> "done",
                  result |-> ScanRange(in_log.latest, in_log.confirmations, in_log.phase)]
    /\ UNCHANGED <<indexerVars, lock, dbVars, apiVars, shutdown, in_log>>

InitRange ==
    /\ AtRest("range")
    /\ transfers = EmptyBag
    /\ tx_base = EmptyBag
    /\ netflows = {}
    /\ in_log \in [latest : RangeLatest, confirmations : RangeConfirmations,
                   phase : {"Backfilling", "Polling"}]
    /\ in_out = [state |-> "pending"]

NextRange == ComputeRange

SpecRange == InitRange /\ [][NextRange]_vars

(***************************************************************************)
(* Properties                                                              *)
(***************************************************************************)

\* One row per key (tx_hash, log_index, token_address).
KeysUnique ==
    \A r \in BagToSet(transfers) :
        /\ CopiesIn(r, transfers) = 1
        /\ \A q \in BagToSet(transfers) :
             SameKey(q, r.tx_hash, r.log_index, r.token_address) => q = r

\* The next log of the open batch decodes and classifies to a row the table
\* already holds: the log was ingested before.
NextLogIsDuplicate ==
    /\ pc = "batch"
    /\ pending # <<>>
    /\ LET r == ProcessDecoded(EmptyBag, cur, NodeLogDecoded[Head(pending)], TRUE)
       IN  r.did = "stored" /\ BagToSet(r.table) \subseteq BagToSet(transfers)

\* C1. Idempotence: however often a relevant log is ingested (twice in one
\* batch, again by a later cycle, again by the backfill after a restart) the
\* table holds exactly one row with its key; ingesting it again leaves the
\* table as it is, and the aggregation that follows a batch of nothing but
\* such logs leaves the aggregates as the preceding aggregation left them.
C1_Idempotence ==
    /\ []KeysUnique
    /\ [][(NextLogIsDuplicate /\ pending' = Tail(pending))
            => transfers' = transfers]_vars
    /\ [][(pc = "aggregate" /\ agg_status' = "ok" /\ agg_fresh /\ transfers = tx_base)
            => netflows' = netflows]_vars

\* C1 witness: the backfill of a restarted process has ingested a batch of
\* logs that were all ingested before, and every key still has one row.
C1_Witness ==
    /\ last_did = "stored_same"
    /\ phase = "Backfilling"
    /\ pc = "batch"
    /\ pending = <<>>
    /\ transfers = tx_base
    /\ agg_fresh
    /\ KeysUnique

\* The aggregate row of a token is the exact decimal sum.
NetflowIsExact(token) ==
    \E n \in netflows :
        /\ n.token_address = token
        /\ n.cumulative_net = ExactNet(transfers, token)

\* C2. Aggregate correctness: after an aggregation run that returned Ok, the
\* cumulative_net of every token with transfers is the sum of its IN amounts
\* minus the sum of its OUT amounts, exactly.
C2_AggregateExact ==
    (pc = "pause" /\ agg_status = "ok")
        => \A t \in token_set : RowsOf(transfers, t) # {} => NetflowIsExact(t)

\* C3. Atomicity: if an INSERT of a token's batch failed, the table after the
\* batch's commit is the table as it was before the batch.
C3_BatchAtomic ==
    (pc = "aggregate" /\ insert_failed) => transfers = tx_base

\* C4. Classification: a decoded transfer is stored with direction IN if its
\* `to` is watched, with OUT if only its `from` is watched, and is not stored
\* if neither is.
C4_Classification ==
    (in_out.state = "done" /\ in_out.decoded # None) =>
        LET transfer == Unwrap(in_out.decoded)
            rows == BagToSet(in_out.result.table)
        IN  /\ transfer.to \in exchange_set =>
                /\ Cardinality(rows) = 1
                /\ \A r \in rows : r.direction = "IN"
            /\ (transfer.to \notin exchange_set /\ transfer.from \in exchange_set) =>
                /\ Cardinality(rows) = 1
                /\ \A r \in rows : r.direction = "OUT"
            /\ (transfer.to \notin exchange_set /\ transfer.from \notin exchange_set) =>
                rows = {}

\* C4 witness: a transfer between two watched addresses, stored as IN.
C4_Witness ==
    /\ in_out.state = "done"
    /\ in_out.decoded # None
    /\ Unwrap(in_out.decoded).from \in exchange_set
    /\ Unwrap(in_out.decoded).to \in exchange_set
    /\ \E r \in BagToSet(in_out.result.table) : r.direction = "IN"

\* C5. Read isolation: whatever the interleaving with the indexer's batches,
\* the rows a /transfers request reads are those of the committed table: it
\* sees a batch whole, after its commit, or not at all.
C5_ReadIsolation ==
    api_pc = "read" =>
        api_rows \in QueryRecentTransfers(Committed, api_token, api_limit)

\* C5 witness: a request reads committed rows while the indexer, its batch
\* fetched, waits for the connection.
C5_Witness ==
    /\ api_pc = "read"
    /\ api_rows # <<>>
    /\ pc = "lock"
    /\ pending # <<>>

\* C6. The loop never ends on its own: no error makes it leave Polling.
C6_NeverTerminates == ~(phase = "Polling" /\ pc = "exited")

\* Text `s` is k copies of "0x" followed by `body`.
IsPrefixed(s, k, body) ==
    /\ Len(s) = 2 * k + Len(body)
    /\ \A i \in 1..k : s[2 * i - 1] = 48 /\ s[2 * i] = 120
    /\ \A i \in 1..Len(body) : s[2 * k + i] = body[i]

HexChars == (48..57) \cup (97..102) \cup (65..70)

\* A topic that is the hex text of exactly 32 bytes (leading 0x removed).
IsWord32(topic) ==
    /\ Len(topic) >= 64
    /\ (Len(topic) - 64) % 2 = 0
    /\ IsPrefixed(topic, (Len(topic) - 64) \div 2, SubSeq(topic, Len(topic) - 63, Len(topic)))
    /\ \A i \in (Len(topic) - 63)..Len(topic) : topic[i] \in HexChars

\* What follows the leading 0x of a text.
Body(s) ==
    LET k == CHOOSE n \in 0..(Len(s) \div 2) :
                 /\ \A i \in 1..n : s[2 * i - 1] = 48 /\ s[2 * i] = 120
                 /\ ~(Len(s) >= 2 * n + 2 /\ s[2 * n + 1] = 48 /\ s[2 * n + 2] = 120)
    IN  SubSeq(s, 2 * k + 1, Len(s))

\* Text `s` is a hex number of at most `digits` significant digits.
IsHexNumber(s, digits) ==
    /\ Body(s) # <<>>
    /\ \A i \in 1..Len(Body(s)) : Body(s)[i] \in HexChars
    /\ \E z \in 0..Len(Body(s)) :
         /\ \A i \in 1..z : Body(s)[i] = 48
         /\ Len(Body(s)) - z <= digits

ValidTopics(log) ==
    /\ Len(log.topics) >= 3
    /\ IsWord32(log.topics[2])
    /\ IsWord32(log.topics[3])

\* C7 as stated. Decoding boundary: decode_transfer returns None for every
\* log with fewer than 3 topics and for every log whose topics[1] or
\* topics[2] is not exactly 32 bytes; for a log with valid topics but
\* unparsable data it returns a transfer with raw amount 0.
C7_AsStated ==
    in_out.state = "done" =>
        /\ ~ValidTopics(in_log) => in_out.decoded = None
        /\ (ValidTopics(in_log) /\ ~IsHexNumber(in_log.data, 32)) =>
              /\ in_out.decoded # None
              /\ Unwrap(in_out.decoded).value_u128 = <<>>

\* C7 amended. Decoding boundary: decode_transfer returns None for every log
\* with fewer than 3 topics, for every log whose topics[1] or topics[2] is
\* not the hex text of exactly 32 bytes, and for every log whose block number
\* does not parse; for a log with valid topics and a parsable block number
\* but unparsable data it returns a transfer with raw amount 0.
C7_DecodingBoundary ==
    in_out.state = "done" =>
        /\ ~ValidTopics(in_log) => in_out.decoded = None
        /\ ~IsHexNumber(in_log.block_number_hex, 16) => in_out.decoded = None
        /\ (/\ ValidTopics(in_log)
            /\ IsHexNumber(in_log.block_number_hex, 16)
            /\ ~IsHexNumber(in_log.data, 32)) =>
              /\ in_out.decoded # None
              /\ Unwrap(in_out.decoded).value_u128 = <<>>

\* C7 witness: valid topics, a block number, data that is no number, decoded
\* to amount 0 and stored.
C7_Witness ==
    /\ in_out.state = "done"
    /\ ValidTopics(in_log)
    /\ in_log.data = Prefix0x \o <<122, 122>>
    /\ in_out.decoded # None
    /\ Unwrap(in_out.decoded).value_u128 = <<>>
    /\ in_out.result.did = "stored"

\* The canonical hex digits of a hex text: its digits from the first one
\* that is not zero.
NumberOf(s) ==
    LET z == CHOOSE n \in 0..Len(s) :
                 /\ \A i \in 1..n : s[i] = 48
                 /\ n < Len(s) => s[n + 1] # 48
        c(i) == s[z + i]
    IN  [i \in 1..(Len(s) - z) |->
            IF c(i) <= 57 THEN c(i) - 48
            ELSE IF c(i) <= 70 THEN c(i) - 55 ELSE c(i) - 87]

\* C8. Amount scaling: a relevant log whose data is an unsigned integer v of
\* up to 128 bits is stored with amount v / 10^18 exactly (an amount is held
\* as the digits of amount * 10^18, so as v itself).
C8_AmountScaling ==
    (/\ in_out.state = "done"
     /\ in_out.decoded # None
     /\ Direction(Unwrap(in_out.decoded)) # None
     /\ IsHexNumber(in_log.data, 32)) =>
        /\ BagCardinality(in_out.result.table) = 1
        /\ \A r \in BagToSet(in_out.result.table) :
             r.amount = NumberOf(Body(in_log.data))

\* The step is a latest-block fetch that succeeded / failed.
LatestSucceeds == pc \in {"backfill_latest", "poll_latest"} /\ pc' = "fetch"

LatestFails ==
    /\ pc \in {"backfill_latest", "poll_latest"}
    /\ pc' \in {"poll_latest", "cycle_sleep"}
    /\ pc' # pc

\* C9. Backoff: the delay is 10 throughout and after a cycle whose
\* latest-block fetch succeeded, a failed latest-block fetch doubles it up to
\* the cap of 120, nothing else changes it, and it is always in 10..120.
C9_Backoff ==
    /\ [](retry_delay \in 10..120)
    /\ [](pc \in {"fetch", "lock", "batch", "aggregate", "pause"} => retry_delay = 10)
    /\ [][LatestSucceeds => retry_delay' = 10]_vars
    /\ [][pc = "pause" /\ pc' = "cycle_sleep" => retry_delay' = 10]_vars
    /\ [][LatestFails =>
            retry_delay' = IF 2 * retry_delay > 120 THEN 120 ELSE 2 * retry_delay]_vars
    /\ [][pc \notin {"backfill_latest", "poll_latest", "exited"} =>
            retry_delay' = retry_delay]_vars

\* C9 witness: enough failed cycles in a row for the cap to apply.
C9_Witness == pc = "cycle_sleep" /\ retry_delay = 120 /\ phase = "Polling"

\* The step is a log fetch that failed.
FetchFails == pc = "fetch" /\ pc' = "pause" /\ outcome'[cur'] = "fetch_failed"

\* C10. A failed log fetch is one request only, writes nothing, leaves the
\* delay as it is, and the cycle goes on to its remaining tokens.
C10_FailedFetch ==
    /\ [](\A t \in token_set : requests[t] <= 1)
    /\ [][FetchFails =>
            /\ requests'[cur'] = 1
            /\ transfers' = transfers
            /\ netflows' = netflows
            /\ tx_open' = tx_open
            /\ retry_delay' = retry_delay
            /\ todo' = todo \ {cur'}]_vars
    /\ [][(pc = "pause" /\ pc' # pc /\ todo # {}) =>
            pc' = "fetch" /\ todo' = todo]_vars

\* C10 witness: the fetch for the first token failed and the second token of
\* the same cycle was fetched and persisted.
C10_Witness ==
    /\ pc = "pause"
    /\ todo = {}
    /\ outcome[TokenSeq[1]] = "fetch_failed"
    /\ outcome[TokenSeq[2]] = "committed"
    /\ RowsOf(transfers, TokenSeq[2]) # {}
    /\ RowsOf(transfers, TokenSeq[1]) = {}

\* C11. Shutdown safety: the process never exits with a write transaction in
\* flight; a transaction ends either by a rollback to the table as it was at
\* its BEGIN or by a commit, after the whole batch was processed, of all it
\* wrote; the persisted table changes at such a commit only, and a shutdown
\* changes nothing of it.
C11_ShutdownSafety ==
    /\ [](pc = "stopped" => (~tx_open /\ lock = "free"))
    /\ [][(tx_open /\ ~tx_open') =>
            \/ transfers' = tx_base
            \/ (pending = <<>> /\ transfers' = transfers)]_vars
    /\ [][Committed' # Committed =>
            (tx_open /\ ~tx_open' /\ pending = <<>> /\ Committed' = transfers)]_vars
    /\ [][pc' = "stopped" => (Committed' = Committed /\ netflows' = netflows)]_vars

\* C11 witness: the signal has arrived and the process has exited right after
\* a batch that changed the table was committed and aggregated.
C11_Witness ==
    /\ pc = "stopped"
    /\ shutdown
    /\ agg_status = "ok"
    /\ cur # NoToken
    /\ outcome[cur] = "committed"
    /\ RowsOf(transfers, cur) # {}
    /\ ~tx_open

\* C12. Scan coverage: when a polling cycle with target T2 follows a cycle
\* (the backfill or a polling cycle) with target T1 <= T2, the range it scans
\* holds every block of (T1, T2].
C12_ScanCoverage ==
    [][(/\ pc = "poll_latest"
        /\ pc' = "fetch"
        /\ target_block # NoTarget
        /\ target_block <= target_block') =>
          \A b \in (target_block + 1)..target_block' :
              StartBlock' <= b /\ b <= target_block']_vars

\* Addresses that are one address written in different letter case.
CaseClasses == {{"0xT1", "0xt1"}, {"0xT2", "0xt2"}}

SameToken(a, b) == a = b \/ \E c \in CaseClasses : a \in c /\ b \in c

\* C13. QueryNetFlow(token): at most one stored aggregate has the address of
\* the query, letter case ignored; the answer is that aggregate, or, if there
\* is none, a record with cumulative_net 0 and last_block 0.
C13_QueryNetFlow ==
    (in_out.state = "done" /\ in_log.kind = "netflow") =>
        LET stored == {r \in netflows : SameToken(r.token_address, in_log.token)}
        IN  /\ Cardinality(stored) <= 1
            /\ stored # {} => in_out.record \in stored
            /\ stored = {} =>
                 /\ in_out.record.cumulative_net = [units |-> 0, wei |-> 0]
                 /\ in_out.record.last_block = 0

\* C14. QueryRecentTransfers(token, limit): at most `limit` rows (10 when no
\* limit is given), each a stored row of the requested token, none twice, by
\* non-increasing block number, and no stored row of the token that is left
\* out has a higher block number than one that is returned or is left out
\* while fewer than `limit` rows are returned.
C14_RecentTransfers ==
    (in_out.state = "done" /\ in_log.kind = "transfers") =>
        LET rows == in_out.rows
            limit == IF in_log.limit = <<>> THEN 10 ELSE in_log.limit[1]
            stored == {r \in BagToSet(transfers) : SameToken(r.token_address, in_log.token)}
            returned == {rows[i] : i \in 1..Len(rows)}
        IN  /\ Len(rows) <= limit
            /\ returned \subseteq stored
            /\ Cardinality(returned) = Len(rows)
            /\ \A i, j \in 1..Len(rows) :
                 i < j => rows[i].block_number >= rows[j].block_number
            /\ \A r \in stored \ returned :
                 /\ Len(rows) = limit
                 /\ \A q \in returned : q.block_number >= r.block_number

\* C14 witness: a request with limit 2 for a token with four stored rows, two
\* of them in the same block, answered with two rows.
C14_Witness ==
    /\ in_out.state = "done"
    /\ in_log.kind = "transfers"
    /\ in_log.limit = <<2>>
    /\ Cardinality({r \in BagToSet(transfers) : SameToken(r.token_address, in_log.token)}) = 4
    /\ Len(in_out.rows) = 2
    /\ in_out.rows[1].block_number > in_out.rows[2].block_number

\* C15. Read API requests never write: a step of a /netflow or /transfers
\* request leaves both tables and the transaction as they are, and a step
\* that changes a table is a step of the indexer, holding the connection.
C15_ApiNeverWrites ==
    /\ [][(pc' = pc /\ apiVars' # apiVars) =>
            /\ transfers' = transfers
            /\ netflows' = netflows
            /\ tx_open' = tx_open
            /\ tx_base' = tx_base]_vars
    /\ [][(transfers' # transfers \/ netflows' # netflows) =>
            /\ lock = "indexer"
            /\ pc \in {"batch", "aggregate"}
            /\ apiVars' = apiVars]_vars

\* C15 witness: a /netflow request has read a stored aggregate while a
\* /transfers request waits, and a /transfers request has read rows.
C15_Witness ==
    \/ /\ nf_pc = "read"
       /\ nf_row # None
       /\ Unwrap(nf_row) \in netflows
       /\ api_pc = "wait"
    \/ /\ api_pc = "read"
       /\ api_rows # <<>>
       /\ nf_pc = "wait"
       /\ netflows # {}

\* C16. A Read API request is never blocked by another Read API request
\* that is in its store-access section: a request waiting for the store
\* while the other endpoint's request reads can enter it.
C16_ReadsConcurrent ==
    /\ (nf_pc = "wait" /\ api_pc = "read") => ENABLED NfQuery
    /\ (api_pc = "wait" /\ nf_pc = "read") => ENABLED ApiQuery

\* C17. No step of the Indexing Loop waits on Read API activity: with the
\* logs of a token fetched, the loop can start its batch write whatever
\* the Read API is doing.
C17_LoopNeverWaitsOnApi ==
    (pc = "lock" /\ api_pc = "read") => ENABLED (BeginBatch \/ BeginFails)

C19_LatestBlockRetries ==
    in_out.state = "done" =>
        LET script == in_log.script
            r == in_out.result
        IN  /\ r.attempts \in 1..3
            /\ \A i \in 1..3 : i < r.attempts => script[i] = "send_err"
            /\ r.slept = RetrySleep * (r.attempts - 1)
            /\ \A i \in 1..3 :
                 (script[i] # "send_err" /\ \A j \in 1..(i - 1) : script[j] = "send_err") =>
                     /\ r.attempts = i
                     /\ script[i] \in {"http_err", "bad_body"} => ~r.ok
            /\ (\A i \in 1..3 : script[i] = "send_err") => (~r.ok /\ r.attempts = 3)
            /\ r.ok => script[r.attempts] = "ok"

\* C19 witness: a call whose first attempt failed in transport and whose
\* second met a status other than 200 has returned an error after two
\* attempts.
C19_Witness ==
    /\ in_out.state = "done"
    /\ in_log.script[1] = "send_err"
    /\ in_log.script[2] = "http_err"
    /\ in_log.script[3] = "ok"
    /\ ~in_out.result.ok
    /\ in_out.result.attempts = 2

\* C20. Backfilling runs once, before the first polling cycle: from its
\* latest-block fetch the loop goes either on to scan the tokens or, the
\* fetch having failed, straight to Polling with no token scanned and
\* nothing written; polling cycles run in Polling only; a running loop in
\* Polling stays in Polling, and Backfilling starts with the process only.
C20_BackfillOnce ==
    /\ [](pc \in {"poll_latest", "cycle_sleep"} => phase = "Polling")
    /\ [](pc = "backfill_latest" => (phase = "Backfilling" /\ requests = NoRequests))
    /\ [][(pc = "backfill_latest" /\ indexerVars' # indexerVars) =>
            \/ pc' = "fetch" /\ phase' = "Backfilling"
            \/ /\ pc' = "poll_latest"
               /\ phase' = "Polling"
               /\ requests' = NoRequests
               /\ transfers' = transfers
               /\ netflows' = netflows]_vars
    /\ [][(phase = "Polling" /\ Running) => phase' = "Polling"]_vars
    /\ [][(pc' = "backfill_latest" /\ pc # "backfill_latest") => ~Running]_vars
    /\ [][(phase' = "Polling" /\ phase = "Backfilling") => pc' = "poll_latest"]_vars

\* C20 witness: the first latest-block fetch of the process failed, and the
\* loop is at its first polling cycle with no block ever targeted.
C20_Witness ==
    /\ pc = "poll_latest"
    /\ phase = "Polling"
    /\ retry_delay = 20
    /\ target_block = NoTarget
    /\ requests = NoRequests

\* The keys (tx_hash, log_index, token_address) of a table.
KeysOf(tbl) == {<<r.tx_hash, r.log_index, r.token_address>> : r \in BagToSet(tbl)}

\* Every row of `before` is in `after` under its key with the block number
\* and the addresses it had.
RowsKept(before, after) ==
    \A r \in BagToSet(before) :
        \E q \in BagToSet(after) :
            /\ SameKey(q, r.tx_hash, r.log_index, r.token_address)
            /\ q.block_number = r.block_number
            /\ q.from_address = r.from_address
            /\ q.to_address = r.to_address

\* C21. record_transfer on a key the table holds changes amount and
\* direction of that row only: block number and addresses stay as first
\* stored, the number of rows stays, and no row is deleted, so the keys
\* of the table in a batch, and of the committed table always, only grow.
C21_UpsertFrame ==
    /\ [][(pc = "batch" /\ pc' = "batch") =>
            /\ RowsKept(transfers, transfers')
            /\ KeysOf(transfers) \subseteq KeysOf(transfers')
            /\ KeysOf(transfers') = KeysOf(transfers) =>
                 BagCardinality(transfers') = BagCardinality(transfers)]_vars
    /\ [][/\ RowsKept(Committed, Committed')
          /\ KeysOf(Committed) \subseteq KeysOf(Committed')]_vars

\* C21 witness: the transfer C -> A of block 5100 was stored as IN, and the
\* same key ingested again from block 5190 as A -> C has made the row OUT
\* with its block number and addresses as they were.
C21_Witness ==
    /\ pc = "batch"
    /\ last_did = "stored_update"
    /\ \E r \in BagToSet(transfers) :
         /\ SameKey(r, "0xh1", 0, TokenSeq[1])
         /\ r.block_number = 5100
         /\ r.from_address = AddrC
         /\ r.to_address = AddrA
         /\ r.direction = "OUT"

\* C22. After an aggregation run (one that returned Ok), every token with
\* stored transfers has one netflow row, and its last_block is the highest
\* block_number among the stored transfers of the token.
C22_LastBlock ==
    (pc = "pause" /\ agg_status = "ok") =>
        \A t \in token_set :
            RowsOf(transfers, t) # {} =>
                /\ \E n \in netflows : n.token_address = t
                /\ \A n \in netflows :
                     n.token_address = t =>
                         /\ \A r \in RowsOf(transfers, t) : r.block_number <= n.last_block
                         /\ \E r \in RowsOf(transfers, t) : r.block_number = n.last_block

\* C22 witness: an aggregation over transfers of one token in blocks 5100
\* and 5150 has returned Ok.
C22_Witness ==
    /\ pc = "pause"
    /\ agg_status = "ok"
    /\ \E r \in RowsOf(transfers, TokenSeq[1]) : r.block_number = 5100
    /\ \E r \in RowsOf(transfers, TokenSeq[1]) : r.block_number = 5150
    /\ \E n \in netflows : n.token_address = TokenSeq[1] /\ n.last_block = 5150

\* C23. Aggregation ordering: a batch ends in its commit, and a commit that
\* succeeded is followed by one recomputation, which (returning Ok) leaves
\* a row for every token of the transfers table, before the pause and the
\* next token's log fetch; the loop comes to a pause with a recomputation
\* run exactly when the token's batch committed, and no step outside a
\* recomputation writes the aggregates.
C23_AggregationOrder ==
    /\ [][(pc = "batch" /\ pc' # "batch") =>
            \/ pc' = "aggregate" /\ ~tx_open' /\ netflows' = netflows
            \/ pc' = "exited" /\ netflows' = netflows]_vars
    /\ [][(pc = "aggregate" /\ indexerVars' # indexerVars) =>
            /\ pc' = "pause"
            /\ agg_status' \in {"ok", "failed"}
            /\ outcome'[cur] = "committed"
            /\ agg_status' = "ok" =>
                 \A t \in token_set :
                     RowsOf(transfers, t) # {} =>
                         \E n \in netflows' : n.token_address = t]_vars
    /\ [](pc = "pause" =>
            /\ outcome[cur] \in {"committed", "fetch_failed"}
            /\ (outcome[cur] = "committed") <=> (agg_status \in {"ok", "failed"})
            /\ (outcome[cur] = "fetch_failed") <=> (agg_status = "none"))
    /\ [](pc \in {"fetch", "lock", "batch", "exited"} => agg_status = "none")
    /\ [][netflows' # netflows => (pc = "aggregate" /\ pc' = "pause")]_vars

\* C23 witness: in one cycle the first token's fetch failed and no
\* recomputation ran for it, the second token's batch committed and the
\* recomputation after it covered both tokens of the table.
C23_Witness ==
    /\ pc = "pause"
    /\ cur = TokenSeq[2]
    /\ outcome[TokenSeq[1]] = "fetch_failed"
    /\ outcome[TokenSeq[2]] = "committed"
    /\ agg_status = "ok"
    /\ \A t \in token_set :
         /\ RowsOf(transfers, t) # {}
         /\ \E n \in netflows : n.token_address = t

\* The next log of the open batch does not decode.
NextLogIsUndecodable ==
    /\ pc = "batch"
    /\ pending # <<>>
    /\ NodeLogDecoded[Head(pending)] = None

\* The next log of the open batch decodes to a transfer with a watched
\* address.
NextLogIsRelevant ==
    /\ pc = "batch"
    /\ pending # <<>>
    /\ NodeLogDecoded[Head(pending)] # None
    /\ Direction(Unwrap(NodeLogDecoded[Head(pending)])) # None

\* C24. A log that does not decode is skipped alone: its iteration leaves
\* the table and the open transaction as they are and the loop goes on with
\* the rest of the batch; a decodable, relevant log of the batch whose INSERT
\* succeeds is in the table of the transaction under its key, whatever came
\* before it; and with the batch gone through the transaction is open and
\* tx.commit() is the next step, after which a commit that succeeds has
\* persisted the table of the transaction.
C24_SkipUndecodable ==
    /\ [][(NextLogIsUndecodable /\ indexerVars' # indexerVars) =>
            /\ pending' = Tail(pending)
            /\ pc' = "batch"
            /\ transfers' = transfers
            /\ tx_open' /\ tx_base' = tx_base
            /\ last_did' = "undecodable"
            /\ insert_failed' = insert_failed]_vars
    /\ [][(NextLogIsRelevant /\ indexerVars' # indexerVars /\ last_did' # "failed") =>
            LET t == Unwrap(NodeLogDecoded[Head(pending)])
            IN  /\ <<t.tx_hash, t.log_index, cur>> \in KeysOf(transfers')
                /\ pending' = Tail(pending)]_vars
    /\ [](pc = "batch" => tx_open /\ lock = "indexer")
    /\ []((pc = "batch" /\ pending = <<>>) => ENABLED CommitOk)
    /\ [][(pc = "batch" /\ pc' = "aggregate") =>
            /\ pending = <<>>
            /\ transfers' = transfers
            /\ Committed' = transfers]_vars

\* C24 witness: a batch of a relevant log and a log that does not decode
\* has been gone through: the row of the first is in the table of the open
\* transaction, and the second was skipped.
C24_Witness ==
    /\ pc = "batch"
    /\ pending = <<>>
    /\ last_did = "undecodable"
    /\ ~insert_failed
    /\ tx_open
    /\ BagCardinality(transfers) = BagCardinality(tx_base) + 1

\* C25. Monotonic aggregate position: in every step, every netflow row is
\* still there for its token afterwards, with a last_block that is not
\* lower.
C25_MonotonicLastBlock ==
    [][\A n \in netflows :
          \E m \in netflows' :
              /\ m.token_address = n.token_address
              /\ m.last_block >= n.last_block]_vars

\* C25 witness: a key stored from block 5190 was ingested again from block
\* 5100 (the row is that of block 5190 with the direction of the log of
\* block 5100), and the aggregation after it has left last_block at 5190.
C25_Witness ==
    /\ pc = "pause"
    /\ agg_status = "ok"
    /\ \E r \in RowsOf(transfers, TokenSeq[1]) :
         /\ SameKey(r, "0xh1", 0, TokenSeq[1])
         /\ r.block_number = 5190
         /\ r.direction = "IN"
    /\ \E n \in netflows : n.token_address = TokenSeq[1] /\ n.last_block = 5190

\* C26. The indexer holds the connection from the start of a token's batch
\* through the recomputation after it: no request is in its read while the
\* loop is in a batch or a recomputation, the indexer lets go of the
\* connection only at the end of the recomputation (or when run returns a
\* commit error), and a request in its read, the last recomputation having
\* returned Ok, finds for every token of the transfers table the aggregate
\* computed from that table.
C26_NoStaleRead ==
    /\ [](pc \in {"batch", "aggregate"} => lock = "indexer")
    /\ []((api_pc = "read" \/ nf_pc = "read") => pc \notin {"batch", "aggregate"})
    /\ [][(lock = "indexer" /\ lock' # "indexer") =>
            \/ pc = "aggregate" /\ pc' = "pause"
            \/ pc = "batch" /\ pc' = "exited"]_vars
    /\ []((agg_fresh /\ (api_pc = "read" \/ nf_pc = "read")) =>
            \A t \in token_set :
                RowsOf(transfers, t) # {} => NetflowRow(transfers, t) \in netflows)

\* C26 witness: a batch that changed the table is committed, the aggregates
\* are those from before it, and a request of each endpoint waits for the
\* connection the indexer holds.
C26_Witness ==
    /\ pc = "aggregate"
    /\ ~tx_open
    /\ transfers # tx_base
    /\ lock = "indexer"
    /\ nf_pc = "wait"
    /\ api_pc = "wait"

\* C27. Scan range bounds: whatever the latest height and the confirmation
\* depth, the range asked for has 0 <= fromBlock <= toBlock <= latest, with
\* toBlock = max(latest - confirmations, 0) and fromBlock =
\* max(toBlock - 5000, 0) in backfill, max(toBlock - 100, 0) in polling.
C27_ScanRange ==
    in_out.state = "done" =>
        LET latest == in_log.latest
            r == in_out.result
            window == IF in_log.phase = "Backfilling" THEN 5000 ELSE 100
        IN  /\ 0 <= r.from_block
            /\ r.from_block <= r.to_block
            /\ r.to_block <= latest
            /\ r.to_block = Max(latest - in_log.confirmations, 0)
            /\ r.from_block = Max(r.to_block - window, 0)

\* C27 witness: the range of a polling cycle for a latest height below the
\* confirmation depth is 0..0.
C27_Witness ==
    /\ in_out.state = "done"
    /\ in_log.latest = 1
    /\ in_log.confirmations = 2
    /\ in_log.phase = "Polling"
    /\ in_out.result = [from_block |-> 0, to_block |-> 0]

====
